---------------------------- MODULE Spec2Model ----------------------------
(***************************************************************************)
(* treaform: print the module structure of a Terraform project.            *)
(*                                                                         *)
(* The model follows src/main.rs: main() resolves the project directory,   *)
(* runs `terraform plan` and `terraform show -json`, deserializes the      *)
(* document (Show/Configuration/Module/ModuleCall), builds the tree with   *)
(* Module::into_trees and prints it with TreeNode's Display impl.          *)
(*                                                                         *)
(* Paths are sequences of components below the filesystem root; an         *)
(* Option<T> is a sequence of length 0 (None) or 1 (Some).                 *)
(***************************************************************************)
EXTENDS Integers, Sequences, FiniteSets, TLC

VARIABLES
    path,           \* Args.path, the --path argument
    doc,            \* the JSON document `terraform show -json` prints
    dirs,           \* the directories that exist on disk right now
    drift,          \* how many directories other processes have removed
    pc,             \* main's position
    terraform_dir,  \* main's terraform_dir
    commands,       \* the terraform commands spawned so far
    fsCalls,        \* calls of canonicalize made so far
    nodes,          \* the TreeNodes built so far, in creation order
    stack,          \* the into_trees iterators being drained by with_leaves
    cursor,         \* how many nodes print! has rendered
    out,            \* what has been written to standard output
    error,          \* the anyhow error main returned, or the panic message
    callerDir,      \* per node, the caller directory its module was walked with
    abort,          \* the module call whose resolution stopped the build
    renderFail      \* the node whose Display::fmt returned fmt::Error

vars == <<path, doc, dirs, drift, pc, terraform_dir, commands, fsCalls, nodes,
          stack, cursor, out, error, callerDir, abort, renderFail>>

None == <<>>
Some(x) == <<x>>

-----------------------------------------------------------------------------
(* Bounds *)

MaxCalls == 2       \* module calls in a document
MaxDrift == 1       \* directories removed by other processes during a run
MaxHops == 2        \* symbolic links followed while resolving one path

-----------------------------------------------------------------------------
(* The filesystem *)

NonUtf8 == "<FF>"   \* a directory name that is not valid UTF-8

\* The directories on disk when the program starts.
Dirs0 ==
    { <<>>, <<"p">>, <<"p", "a">>, <<"p", "a", "a">>,
      <<"p", NonUtf8>>, <<"p", NonUtf8, "a">>,
      <<"q">>, <<"q", "a">> }

\* The directories another process may remove while the program runs.
Removable == { <<"p", "a">>, <<"q">> }

\* Symbolic links: /p/l -> /q.
Links == [l \in {<<"p", "l">>} |-> <<"q">>]

\* env::current_dir()
current_dir == <<"p">>

IsPrefix(s, t) == Len(s) <= Len(t) /\ SubSeq(t, 1, Len(s)) = s

\* Path::components / Path::iter: `.` components are dropped.
Components(p) == SelectSeq(p, LAMBDA c : c # ".")

\* PathBuf::push: an absolute argument replaces the path, a relative one is
\* appended to it.
Push(base, src) == IF src.abs THEN src.comps ELSE base \o src.comps

\* fs::canonicalize's walk: `cur` is the resolved prefix, `rest` what is left.
\* The result is Some(path) or None when a component does not exist.
RECURSIVE Walk(_, _, _, _)
Walk(cur, rest, ds, hops) ==
    IF rest = <<>> THEN Some(cur)
    ELSE LET c == Head(rest)
             next == Append(cur, c)
         IN  IF c = "." THEN Walk(cur, Tail(rest), ds, hops)
             ELSE IF c = ".."
                 THEN Walk(IF cur = <<>> THEN cur ELSE SubSeq(cur, 1, Len(cur) - 1),
                           Tail(rest), ds, hops)
             ELSE IF next \in DOMAIN Links
                 THEN IF hops = 0 THEN None
                      ELSE Walk(<<>>, Links[next] \o Tail(rest), ds, hops - 1)
             ELSE IF next \in ds THEN Walk(next, Tail(rest), ds, hops)
             ELSE None

\* Path::canonicalize on the filesystem `ds`.
canonicalize(p, ds) == Walk(<<>>, p, ds, MaxHops)

\* Path::to_str: None when the path is not valid UTF-8.
to_str(p) == IF \E i \in 1..Len(p) : p[i] = NonUtf8 THEN None ELSE Some(p)

\* The text of a path, as a sequence of tokens.
RECURSIVE PathJoin(_)
PathJoin(p) ==
    IF p = <<>> THEN <<>> ELSE <<"/", Head(p)>> \o PathJoin(Tail(p))

PathText(p) == IF p = <<>> THEN <<"/">> ELSE PathJoin(p)

-----------------------------------------------------------------------------
(* The document *)

Rel(comps) == [abs |-> FALSE, comps |-> comps]
Abs(comps) == [abs |-> TRUE, comps |-> comps]

\* A module call without a `source` field.
NoSource == Rel(<<"<no source>">>)

\* The values of a module call's `source`.
SourceValues == { Rel(<<"a">>), Rel(<<"..", "a">>), Rel(<<"missing">>), Abs(<<"q">>) }

\* count_expression: absent, or its constant_value (a JSON number; a negative
\* one is no usize).
CountValues == { None, Some(2) }
NegativeCount == Some(-1)

\* for_each_expression: absent, or the keys of its constant_value.
ForEachValues == { None, Some({}), Some({"east", "west"}) }

\* The names of the module calls, by position in the document.
CallNames == <<"net", "vpc", "subnet", "db">>

\* The fields of a module call: every count/for_each combination on a plain
\* source, every source without them, and the two calls serde rejects.
CallValues ==
    [source : {Rel(<<"a">>)}, count : CountValues, for_each : ForEachValues]
    \cup [source : SourceValues, count : {None}, for_each : {None}]
    \cup { [source |-> NoSource, count |-> None, for_each |-> None],
           [source |-> Rel(<<"a">>), count |-> NegativeCount, for_each |-> None] }

\* A module call at position i: `parent` is the position of the call whose
\* module holds it, 0 for the root module.
CallsAt(i) ==
    { [name |-> CallNames[i], parent |-> p, source |-> v.source,
       count |-> v.count, for_each |-> v.for_each] :
          p \in 0..(i - 1), v \in CallValues }

RECURSIVE DocsOfLen(_)
DocsOfLen(n) ==
    IF n = 0 THEN {<<>>}
    ELSE {Append(d, c) : d \in DocsOfLen(n - 1), c \in CallsAt(n)}

Docs == UNION {DocsOfLen(n) : n \in 0..MaxCalls}

\* The values of --path.
PathValues == { <<".">>, <<"l">>, <<NonUtf8>>, <<"missing">> }

\* Variant: only the first call of a module is kept.
module_calls_first(d, m) ==
    {i \in 1..Len(d) : d[i].parent = m /\ \A j \in 1..(i - 1) : d[j].parent # m}

\* Module.module_calls of the module of call m (0: the root module).
module_calls(d, m) == {i \in 1..Len(d) : d[i].parent = m}

\* serde's derive(Deserialize) on ModuleCall: `source` is required, and
\* CountExpression.constant_value is a usize.
DeserializeCall(c) ==
    /\ c.source # NoSource
    /\ c.count # None => c.count[1] >= 0

\* Variant: every document is accepted.
from_str_lenient(d) == TRUE

\* serde_json::from_str::<Show>
from_str(d) == \A i \in 1..Len(d) : DeserializeCall(d[i])

-----------------------------------------------------------------------------
(* Module::into_trees *)

\* The iteration of a HashMap: any entry not yet yielded may come next.
iter_next(remaining) == remaining

\* Variant: a path that does not resolve is kept as joined.
resolve_source_fallback(joined, ds) ==
    IF canonicalize(joined, ds) = None THEN Some(joined) ELSE canonicalize(joined, ds)

\* parent.canonicalize().expect("terraform provided incorrect path"):
\* Some(source), or None for the panic.
resolve_source(joined, ds) == canonicalize(joined, ds)

\* Variant: the canonical source is handed down.
recurse_source(joined, source) == source

\* The caller directory handed to the nested module's into_trees: the closure's
\* `parent` (the joined path), not `source`.
recurse_dir(joined, source) == joined

\* Variant: the nested module is not walked.
no_leaves(d, c) == {}

\* The module whose calls become the leaves of the node of call c.
leaves_of(d, c) == module_calls(d, c)

\* TreeNode { name, count, for_each, source }, with the node it hangs under
\* and the call it was built from (0 for the root).
TreeNode(name, count, for_each, source, parent, call) ==
    [name |-> name, count |-> count, for_each |-> for_each, source |-> source,
     parent |-> parent, call |-> call]

Frame(node, dir, remaining) == [node |-> node, dir |-> dir, remaining |-> remaining]

Top == stack[Len(stack)]

SetTop(f) == [stack EXCEPT ![Len(stack)] = f]

-----------------------------------------------------------------------------
(* TreeNode's Display *)

Perms(S) ==
    {f \in [1..Cardinality(S) -> S] : \A i, j \in DOMAIN f : i # j => f[i] # f[j]}

\* The orders in which HashMap::keys may yield the for_each keys.
KeyOrders(for_each) == IF for_each = None THEN {<<>>} ELSE Perms(for_each[1])

\* write!(f, "[{index}]")
CountText(count) ==
    IF count = None THEN <<>> ELSE <<"[", ToString(count[1]), "]">>

\* The loop over for_each.keys().enumerate(): a space after every key but
\* the last.
RECURSIVE KeysText(_, _)
KeysText(keys, index) ==
    IF index > Len(keys) THEN <<>>
    ELSE <<keys[index]>> \o (IF index < Len(keys) THEN <<" ">> ELSE <<>>)
             \o KeysText(keys, index + 1)

\* Variant: an empty key set writes no braces.
ForEachTextSkipEmpty(for_each, keys) ==
    IF for_each = None \/ keys = <<>> THEN <<>>
    ELSE <<"{">> \o KeysText(keys, 1) \o <<"}">>

ForEachText(for_each, keys) ==
    IF for_each = None THEN <<>> ELSE <<"{">> \o KeysText(keys, 1) \o <<"}">>

\* Variant: for_each is written only when count is absent.
SuffixElseIf(count, for_each, keys) ==
    IF count # None THEN CountText(count) ELSE ForEachText(for_each, keys)

\* What fmt writes between the name and the path.
Suffix(count, for_each, keys) == CountText(count) \o ForEachText(for_each, keys)

\* Variant: the stored source is printed as it is.
fmt_path_stored(source, ds) == Some(Components(source))

\* self.source.iter().collect::<PathBuf>().canonicalize()
fmt_path(source, ds) == canonicalize(Components(source), ds)

\* Display::fmt for a TreeNode: what it wrote, and whether it returned Ok.
fmt(node, ds, keys) ==
    LET p == fmt_path(node.source, ds)
        head == <<node.name>> \o Suffix(node.count, node.for_each, keys)
    IN  IF p = None
            THEN [ok |-> FALSE, text |-> <<>>, cause |-> "canonicalize"]
        ELSE IF to_str(p[1]) = None
            THEN [ok |-> FALSE, text |-> head, cause |-> "to_str"]
        ELSE [ok |-> TRUE,
              text |-> head \o <<" (">> \o PathText(to_str(p[1])[1]) \o <<")">>,
              cause |-> "none"]

\* The leaves of a node, in the order with_leaves collected them.
Leaves(ns, n) == {i \in 1..Len(ns) : ns[i].parent = n}

Min(S) == CHOOSE x \in S : \A y \in S : x <= y

\* The order in which the tree's Display visits the nodes: a node, then each
\* of its leaves' subtrees, in the leaves' order.
RECURSIVE PreOrder(_, _)
RECURSIVE PreOrderAll(_, _)
PreOrder(ns, n) == <<n>> \o PreOrderAll(ns, Leaves(ns, n))
PreOrderAll(ns, S) ==
    IF S = {} THEN <<>>
    ELSE PreOrder(ns, Min(S)) \o PreOrderAll(ns, S \ {Min(S)})

-----------------------------------------------------------------------------
(* main *)

Init ==
    /\ path \in PathValues
    /\ doc \in Docs
    /\ dirs = Dirs0
    /\ drift = 0
    /\ pc = "start"
    /\ terraform_dir = None
    /\ commands = <<>>
    /\ fsCalls = 0
    /\ nodes = <<>>
    /\ stack = <<>>
    /\ cursor = 0
    /\ out = <<>>
    /\ error = None
    /\ callerDir = <<>>
    /\ abort = None
    /\ renderFail = None

\* "Calculate dirs": current_dir, push(args.path), canonicalize()?. The
\* canonical path is dropped; terraform_dir stays the joined path.
ResolveDir ==
    /\ pc = "start"
    /\ LET dir == Push(current_dir, Rel(path))
       IN  /\ terraform_dir' = Some(dir)
           /\ fsCalls' = fsCalls + 1
           /\ IF canonicalize(dir, dirs) = None
                 THEN pc' = "err" /\ error' = Some("failed to resolve path")
                 ELSE pc' = "plan" /\ error' = error
    /\ UNCHANGED <<path, doc, dirs, drift, commands, nodes, stack, cursor, out,
                   callerDir, abort, renderFail>>

\* `terraform plan`: the command's outcome is the environment's.
RunPlan ==
    /\ pc = "plan"
    /\ commands' = Append(commands, "plan")
    /\ \E success \in BOOLEAN :
          IF success THEN pc' = "show" /\ error' = error
          ELSE pc' = "err" /\ error' = Some("terraform plan failed")
    /\ UNCHANGED <<path, doc, dirs, drift, terraform_dir, fsCalls, nodes, stack,
                   cursor, out, callerDir, abort, renderFail>>

\* `terraform show -json`
RunShow ==
    /\ pc = "show"
    /\ commands' = Append(commands, "show")
    /\ \E success \in BOOLEAN :
          IF success THEN pc' = "deserialize" /\ error' = error
          ELSE pc' = "err" /\ error' = Some("terraform show failed")
    /\ UNCHANGED <<path, doc, dirs, drift, terraform_dir, fsCalls, nodes, stack,
                   cursor, out, callerDir, abort, renderFail>>

\* serde_json::from_str(&stdout).context("failed to deserialize")?
Deserialize ==
    /\ pc = "deserialize"
    /\ IF from_str(doc)
          THEN pc' = "root" /\ error' = error
          ELSE pc' = "err" /\ error' = Some("failed to deserialize")
    /\ UNCHANGED <<path, doc, dirs, drift, terraform_dir, commands, fsCalls, nodes,
                   stack, cursor, out, callerDir, abort, renderFail>>

\* Tree::new(root_node), and the root module's into_trees iterator.
NewRoot ==
    /\ pc = "root"
    /\ nodes' = <<TreeNode("*", None, None, terraform_dir[1], 0, 0)>>
    /\ callerDir' = <<terraform_dir[1]>>
    /\ stack' = <<Frame(1, terraform_dir[1], module_calls(doc, 0))>>
    /\ pc' = "build"
    /\ UNCHANGED <<path, doc, dirs, drift, terraform_dir, commands, fsCalls, cursor,
                   out, error, abort, renderFail>>

\* One turn of the closure in into_trees, for the call c the iterator yields.
Visit ==
    /\ pc = "build"
    /\ stack # <<>>
    /\ \E c \in iter_next(Top.remaining) :
          LET joined == Push(Top.dir, doc[c].source)
              source == resolve_source(joined, dirs)
          IN  /\ fsCalls' = fsCalls + 1
              /\ IF source = None
                    THEN /\ pc' = "panic"
                         /\ error' = Some("terraform provided incorrect path")
                         /\ abort' = Some([call |-> c, joined |-> joined])
                         /\ UNCHANGED <<nodes, stack, callerDir>>
                    ELSE /\ nodes' = Append(nodes,
                                TreeNode(doc[c].name, doc[c].count, doc[c].for_each,
                                         source[1], Top.node, c))
                         /\ callerDir' = Append(callerDir, recurse_dir(joined, source[1]))
                         /\ stack' = Append(
                                SetTop(Frame(Top.node, Top.dir, Top.remaining \ {c})),
                                Frame(Len(nodes) + 1, recurse_dir(joined, source[1]),
                                      leaves_of(doc, c)))
                         /\ UNCHANGED <<pc, error, abort>>
    /\ UNCHANGED <<path, doc, dirs, drift, terraform_dir, commands, cursor, out,
                   renderFail>>

\* An into_trees iterator is exhausted: with_leaves has its leaves.
Return ==
    /\ pc = "build"
    /\ stack # <<>>
    /\ Top.remaining = {}
    /\ stack' = SubSeq(stack, 1, Len(stack) - 1)
    /\ pc' = IF Len(stack) = 1 THEN "print" ELSE "build"
    /\ UNCHANGED <<path, doc, dirs, drift, terraform_dir, commands, fsCalls, nodes,
                   cursor, out, error, callerDir, abort, renderFail>>

\* print!("{tree}"): the next node's line. print! panics when the Display
\* returns an error.
PrintNode ==
    /\ pc = "print"
    /\ cursor < Len(nodes)
    /\ LET n == PreOrder(nodes, 1)[cursor + 1]
       IN  \E keys \in KeyOrders(nodes[n].for_each) :
              LET r == fmt(nodes[n], dirs, keys)
              IN  /\ fsCalls' = fsCalls + 1
                  /\ out' = IF r.text = <<>> THEN out
                            ELSE Append(out, [node |-> n, text |-> r.text, nl |-> r.ok])
                  /\ IF r.ok
                        THEN /\ cursor' = cursor + 1
                             /\ UNCHANGED <<pc, error, renderFail>>
                        ELSE /\ pc' = "panic"
                             /\ error' = Some("failed printing to stdout")
                             /\ renderFail' = Some([node |-> n, cause |-> r.cause])
                             /\ UNCHANGED cursor
    /\ UNCHANGED <<path, doc, dirs, drift, terraform_dir, commands, nodes, stack,
                   callerDir, abort>>

\* Ok(())
Finish ==
    /\ pc = "print"
    /\ cursor = Len(nodes)
    /\ pc' = "done"
    /\ UNCHANGED <<path, doc, dirs, drift, terraform_dir, commands, fsCalls, nodes,
                   stack, cursor, out, error, callerDir, abort, renderFail>>

\* Another process removes a directory (and what is below it) while the tree
\* is being built or printed.
RemoveDir ==
    /\ pc \in {"build", "print"}
    /\ drift < MaxDrift
    /\ \E d \in Removable \cap dirs :
          dirs' = {x \in dirs : ~IsPrefix(d, x)}
    /\ drift' = drift + 1
    /\ UNCHANGED <<path, doc, pc, terraform_dir, commands, fsCalls, nodes, stack,
                   cursor, out, error, callerDir, abort, renderFail>>

Next ==
    \/ ResolveDir
    \/ RunPlan
    \/ RunShow
    \/ Deserialize
    \/ NewRoot
    \/ Visit
    \/ Return
    \/ PrintNode
    \/ Finish
    \/ RemoveDir

Spec == Init /\ [][Next]_vars

-----------------------------------------------------------------------------
(* Properties *)

\* with_leaves has collected the whole tree.
Built == pc \in {"print", "done"} \/ renderFail # None

InText(tok, text) == \E i \in 1..Len(text) : text[i] = tok

Pos(tok, text) == CHOOSE i \in 1..Len(text) : text[i] = tok

\* The calls a document puts in the module of call m.
CallsIn(m) == {c \in 1..Len(doc) : doc[c].parent = m}

\* Every module call of the document meets serde's requirements.
SchemaValid ==
    \A i \in 1..Len(doc) :
        /\ doc[i].source # NoSource
        /\ doc[i].count # None => doc[i].count[1] >= 0

RECURSIVE CallDepth(_)
CallDepth(c) == IF c = 0 THEN 0 ELSE 1 + CallDepth(doc[c].parent)

RECURSIVE NodeDepth(_)
NodeDepth(n) == IF n = 0 THEN 0 ELSE 1 + NodeDepth(nodes[n].parent)

Max(S) == CHOOSE x \in S : \A y \in S : x >= y

DocDepth == Max({0} \cup {CallDepth(c) : c \in 1..Len(doc)})

TreeDepth == Max({0} \cup {NodeDepth(n) : n \in 1..Len(nodes)})

(* C1 *)

\* C1, as claimed: when the joined path of a visited module call does not
\* canonicalize, the build goes on and the call's node carries the joined
\* path as its source.
C1_FallbackToJoinedPath ==
    abort # None =>
        /\ pc # "panic"
        /\ \E n \in 1..Len(nodes) :
              nodes[n].call = abort[1].call /\ nodes[n].source = abort[1].joined

\* C1, amended: when the joined path of a visited module call does not
\* canonicalize, into_trees panics ("terraform provided incorrect path"): no
\* node is built for the call, nothing is printed, and every node that was
\* built carries the canonical form of its joined path.
C1_PanicOnUnresolvedSource ==
    /\ abort # None =>
          /\ pc = "panic"
          /\ error = Some("terraform provided incorrect path")
          /\ canonicalize(abort[1].joined, dirs) = None
          /\ \A n \in 1..Len(nodes) : nodes[n].call # abort[1].call
          /\ out = <<>>
    /\ \A n \in 2..Len(nodes) :
          canonicalize(callerDir[n], Dirs0) = Some(nodes[n].source)

\* A build stopped at a call whose source names no directory, with an
\* earlier sibling already built.
C1_Witness ==
    /\ abort # None
    /\ drift = 0
    /\ doc[abort[1].call].source = Rel(<<"missing">>)
    /\ Len(nodes) >= 2

(* C2 *)

\* C2, as claimed: no rendered line carries both a [count] and a {keys}
\* suffix.
C2_AtMostOneSuffix ==
    \A i \in 1..Len(out) : ~(InText("[", out[i].text) /\ InText("{", out[i].text))

\* C2, amended: a rendered line carries the [count] suffix exactly when the
\* node's count is present and the {keys} suffix exactly when its for_each is
\* present; with both present both are written, [count] first.
C2_SuffixPerField ==
    \A i \in 1..Len(out) :
        LET n == nodes[out[i].node]
            text == out[i].text
        IN  /\ InText("[", text) <=> n.count # None
            /\ InText("{", text) <=> n.for_each # None
            /\ (n.count # None /\ n.for_each # None) =>
                  /\ Pos("[", text) = 2
                  /\ Pos("{", text) = Pos("]", text) + 1

\* A complete line of a node with both count and for_each.
C2_Witness ==
    \E i \in 1..Len(out) :
        /\ out[i].nl
        /\ nodes[out[i].node].count # None
        /\ nodes[out[i].node].for_each # None
        /\ InText("[", out[i].text) /\ InText("{", out[i].text)

(* C3 *)

\* C3, as claimed: every node of the built tree has one leaf per call of its
\* module, and the leaves stand in the document's order.
C3_DocumentOrder ==
    Built =>
        \A n \in 1..Len(nodes) :
            /\ Cardinality(Leaves(nodes, n)) = Cardinality(CallsIn(nodes[n].call))
            /\ \A i, j \in Leaves(nodes, n) :
                  i < j => nodes[i].call < nodes[j].call

\* C3, amended: every node of the built tree has exactly one leaf per call of
\* its module; the leaves stand in the HashMap's iteration order, which may
\* be any order.
C3_OneLeafPerCall ==
    Built =>
        \A n \in 1..Len(nodes) :
            /\ Cardinality(Leaves(nodes, n)) = Cardinality(CallsIn(nodes[n].call))
            /\ {nodes[i].call : i \in Leaves(nodes, n)} = CallsIn(nodes[n].call)

\* A built tree whose root has two leaves, in the reverse of document order.
C3_Witness ==
    /\ pc = "done"
    /\ Cardinality(Leaves(nodes, 1)) = 2
    /\ \E i, j \in Leaves(nodes, 1) : i < j /\ nodes[i].call > nodes[j].call

(* C4 *)

\* C4, as claimed: rendering a node fails only when its source path is not
\* valid text.
C4_OnlyInvalidText ==
    renderFail # None => to_str(nodes[renderFail[1].node].source) = None

\* print! rendered a node in this step.
Rendered == pc = "print" /\ cursor < Len(nodes) /\ (cursor' # cursor \/ pc' # pc)

\* C4, amended: rendering a node fails exactly when its source cannot be
\* canonicalized at the time of rendering (the directory is gone) or its
\* canonical path is not valid text (the writer taking every write).
C4_FailsIffUnresolvedOrInvalid ==
    [][Rendered =>
          LET n == PreOrder(nodes, 1)[cursor + 1]
              p == canonicalize(Components(nodes[n].source), dirs)
          IN  (pc' = "panic") <=> (p = None \/ to_str(p[1]) = None)]_vars

\* Rendering failed for a node whose source is valid text.
C4_Witness ==
    /\ renderFail # None
    /\ renderFail[1].cause = "canonicalize"
    /\ to_str(nodes[renderFail[1].node].source) # None

(* C5 *)

\* C5, as claimed: when rendering a node fails, main returns an error to its
\* caller.
C5_RenderFailureIsAnError == renderFail # None => pc = "err"

(* C6 *)

\* C6: when the document does not deserialize, main returns the error at
\* once: no tree node is built, no module source is resolved (the only
\* canonicalize call is the earlier one on the project directory) and
\* nothing is written; so a line is written only after deserialization
\* succeeded.
C6_SchemaFailureAborts ==
    /\ ~SchemaValid =>
          /\ nodes = <<>> /\ stack = <<>> /\ out = <<>> /\ fsCalls <= 1
          /\ pc \in {"start", "plan", "show", "deserialize", "err"}
    /\ error = Some("failed to deserialize") => ~SchemaValid /\ pc = "err"
    /\ (out # <<>> \/ nodes # <<>>) => SchemaValid

\* main stopped on a document with a call that lacks `source`.
C6_Witness ==
    /\ pc = "err"
    /\ error = Some("failed to deserialize")
    /\ \E i \in 1..Len(doc) : doc[i].source = NoSource

(* C7 *)

Measure == 2 * (Len(doc) + 1 - Len(nodes)) + Len(stack)

\* Each call has one node, hung under the node of the call that holds it.
Shape ==
    /\ Len(nodes) = Len(doc) + 1
    /\ nodes[1].call = 0 /\ nodes[1].parent = 0 /\ nodes[1].name = "*"
    /\ \A c \in 1..Len(doc) :
          \E n \in 2..Len(nodes) :
              /\ nodes[n].call = c
              /\ \A m \in 2..Len(nodes) : nodes[m].call = c => m = n
              /\ nodes[nodes[n].parent].call = doc[c].parent
    /\ TreeDepth = DocDepth + 1

\* C8: building terminates (every step of into_trees lowers the work left,
\* which is never negative), and the built tree has one node per module
\* call, each under the node of the call (or root) whose module holds it,
\* so its depth is the document's nesting depth plus one.
C8_DepthAndTermination ==
    [][/\ Built' => Shape'
       /\ (pc = "build" /\ stack' # stack) => (Measure' < Measure /\ Measure' >= 0)
      ]_vars

\* A printed tree of depth 3 for a document of nesting depth 2.
C8_Witness == pc = "done" /\ DocDepth = 2 /\ TreeDepth = 3 /\ Len(out) = 3

(* C9 *)

\* C9, as claimed: the caller directory a node's nested module is walked
\* with is the node's source.
C9_PassesSource ==
    \A n \in 2..Len(nodes) : callerDir[n] = nodes[n].source

\* C9, amended: the caller directory handed down is the joined path (the
\* caller's own directory with the declared source pushed), not the canonical
\* source; the node's source is its canonical form, and equals the declared
\* source resolved against the parent node's source.
C9_PassesJoinedPath ==
    \A n \in 2..Len(nodes) :
        LET p == nodes[n].parent
            src == doc[nodes[n].call].source
        IN  /\ callerDir[n] = Push(callerDir[p], src)
            /\ canonicalize(callerDir[n], Dirs0) = Some(nodes[n].source)
            /\ canonicalize(Push(nodes[p].source, src), Dirs0) = Some(nodes[n].source)

\* A nested node whose parent's module was walked with a directory other
\* than the parent's source.
C9_Witness ==
    \E n \in 2..Len(nodes) :
        /\ nodes[n].parent >= 2
        /\ callerDir[nodes[n].parent] # nodes[nodes[n].parent].source
        /\ callerDir[n] # nodes[n].source

(* C10 *)

\* C10, as claimed: the root node's source, and the caller directory the
\* builder starts from, are the canonical project directory; and a project
\* path that does not canonicalize fails main before any command is run.
C10_RootIsCanonical ==
    /\ nodes # <<>> =>
          /\ canonicalize(terraform_dir[1], Dirs0) = Some(Components(nodes[1].source))
          /\ canonicalize(terraform_dir[1], Dirs0) = Some(Components(callerDir[1]))
    /\ error = Some("failed to resolve path") => commands = <<>> /\ nodes = <<>>

=============================================================================
